---- MODULE Spec2Model ----
(***************************************************************************)
(* A model of the botpress-pulumi program: the AppService base component,  *)
(* its LangServer and MainServer subclasses and the composition root.      *)
(*                                                                         *)
(* Resources the program declares are appended, in declaration order, to   *)
(* the sequence `resources`; an object field that holds a resource (pvc,   *)
(* appDeployment, service, ...) holds the resource's index in that         *)
(* sequence, and 0 stands for JavaScript's undefined.  A string slot that  *)
(* may be undefined holds the value `undefined`.  A pulumi.Output<string>  *)
(* is modelled by the string it resolves to, or by `Rejected` when the     *)
(* callback computing it throws.                                           *)
(***************************************************************************)
EXTENDS Integers, Sequences, FiniteSets, TLC

(* ------------------------------ bounds -------------------------------- *)

\* Number of component objects a client program constructs.
MaxObjs == 2

\* Number of method calls made on the objects of the method-level harness.
MaxCalls == 5

\* The IncomingResources a program declares.
MaxDynamic == 2

(* ----------------------------- constants ------------------------------ *)

undefined == "<undefined>"
Rejected == "<rejected>"

MainServer_SERVER_PORT == 3000
LangServer_SERVER_PORT == 3100

\* `x ? a : b` and `!x` on a string slot: undefined and "" are falsy.
Truthy(s) == s # undefined /\ s # ""

\* pulumi.interpolate over a sequence of parts: rejected when a part is.
RECURSIVE Concat(_)
Concat(parts) ==
    IF parts = <<>> THEN "" ELSE Head(parts) \o Concat(Tail(parts))

Interpolate(parts) ==
    IF \E k \in 1..Len(parts) : parts[k] = Rejected
    THEN Rejected
    ELSE Concat(parts)

\* Number.prototype.toString for the port numbers the program interpolates.
PortString(p) ==
    IF p = 3000 THEN "3000" ELSE IF p = 3100 THEN "3100" ELSE undefined

(* ------------------------------ state --------------------------------- *)

VARIABLES
    config,                  \* the stack configuration (pulumi.Config)
    lb,                      \* what the chart reports for its LoadBalancer Service
    autoSuffix,              \* the suffix the engine appends to auto-named resources
    resources,               \* the resources declared so far, in order
    objs,                    \* the component objects allocated so far
    ingressControllerChart,  \* static AppService.ingressControllerChart
    appSvcsNamespace,        \* static AppService.appSvcsNamespace
    defaultIngressClass,     \* static AppService.defaultIngressClass
    log,                     \* pulumi.log.info messages
    lastCall,                \* the last call made and how it ended
    ctor,                    \* the constructor that is running, and its position
    status,                  \* per object: constructing, constructed or failed
    pc,                      \* position of the composition root
    root,                    \* the composition root's constants
    calls,                   \* calls made by the method-level harness
    dynamic,                 \* the dynamic resources registered with the engine
    requests                 \* the requests sent to the DigitalOcean API

statics == <<ingressControllerChart, appSvcsNamespace, defaultIngressClass>>
env == <<config, lb, autoSuffix, dynamic, requests>>
heap == <<resources, objs, ingressControllerChart, appSvcsNamespace,
          defaultIngressClass, log>>
vars == <<config, lb, autoSuffix, resources, objs, ingressControllerChart,
          appSvcsNamespace, defaultIngressClass, log, lastCall, ctor, status,
          pc, root, calls, dynamic, requests>>

(* ------------------------- inputs of the model ------------------------ *)

DoksVersions == {undefined, "1.22.8-do.1"}
DomainNames == {undefined, "", "bot.example.com"}
Namespaces == {"apps"}
ClusterIds == {"doks-1"}
LbIp == "203.0.113.10"
LbStates == {"absent", "noIngress", LbIp}
AutoSuffixes == {"", "-a1b2c3d4"}
BpfsStorages == {"disk", "database"}
DefaultLangEndpoint == "http://botpress-lang-server-service.apps:3100"

Configs ==
    [ingressControllerVersion : {undefined, "4.0.6"},
     botpressServerVersion : {undefined, "12_30_1"},
     doksVersion : DoksVersions,
     customDomain : DomainNames]

\* AppServiceArgs / LangServerArgs / MainServerArgs in one record shape; the
\* fields a class does not declare are undefined.
AppServiceArgs(cluster, ns, replicas, size) ==
    [clusterId |-> cluster, namespace |-> ns, numReplicas |-> replicas,
     storageSize |-> size, langServerServiceEndpoint |-> undefined,
     domainName |-> undefined, bpfsStorage |-> undefined, dbSize |-> undefined]

MainServerArgs(cluster, ns, replicas, size, endpoint, domain, storage) ==
    [clusterId |-> cluster, namespace |-> ns, numReplicas |-> replicas,
     storageSize |-> size, langServerServiceEndpoint |-> endpoint,
     domainName |-> domain, bpfsStorage |-> storage, dbSize |-> undefined]

NoCall ==
    [op |-> "none", self |-> 0, result |-> "none", error |-> "", value |-> "",
     ref |-> 0]
Idle == [self |-> 0, pc |-> "idle"]

\* A freshly allocated object: every field is undefined until a constructor
\* or a method assigns it.
NewObject(cls, name, args) ==
    [cls |-> cls, name |-> name, args |-> args,
     ingressControllerVersion |-> undefined,
     botpressServerVersion |-> undefined,
     pvc |-> 0, appDeployment |-> 0, service |-> 0,
     dbCluster |-> 0, dbConnectionPool |-> 0]

Resource(type, name, by, args) ==
    [type |-> type, name |-> name, by |-> by, args |-> args]

\* The index the next declared resource gets.
NextRef == Len(resources) + 1

\* The name the engine gives a resource declared without metadata.name.
AutoName(logical) == logical \o autoSuffix

\* How a call ended: it returned (a string in `value`, or a resource in
\* `ref`), or it threw an Error with the message `error`.
Returned(op, self, value) ==
    [op |-> op, self |-> self, result |-> "returned", error |-> "",
     value |-> value, ref |-> 0]

ReturnedRef(op, self, ref) ==
    [op |-> op, self |-> self, result |-> "returned", error |-> "",
     value |-> "", ref |-> ref]

Threw(op, self, msg) ==
    [op |-> op, self |-> self, result |-> "threw", error |-> msg,
     value |-> "", ref |-> 0]

(* ----------------------------- AppService ------------------------------ *)

\* getBaseMetadata(): the namespace the component was given.
getBaseMetadata(self) == objs[self].args.namespace

\* The head of the AppService constructor: config.require throws when a key
\* is missing from the stack configuration; otherwise the versions are read.
AppService_constructor(self) ==
    IF config.ingressControllerVersion = undefined
    THEN /\ lastCall' = Threw("AppService", self,
                "Missing required configuration variable 'ingressControllerVersion'")
         /\ UNCHANGED heap
    ELSE IF config.botpressServerVersion = undefined
    THEN /\ lastCall' = Threw("AppService", self,
                "Missing required configuration variable 'botpressServerVersion'")
         /\ UNCHANGED heap
    ELSE /\ objs' = [objs EXCEPT
                ![self].ingressControllerVersion = config.ingressControllerVersion,
                ![self].botpressServerVersion = config.botpressServerVersion]
         /\ lastCall' = Returned("AppService", self, "")
         /\ UNCHANGED <<resources, statics, log>>

\* A getDeployment that hands out the field as it is.
Mutant_getDeployment_unguarded(self) ==
    /\ lastCall' = ReturnedRef("getDeployment", self, objs[self].appDeployment)
    /\ UNCHANGED heap

getDeployment(self) ==
    /\ lastCall' = IF objs[self].appDeployment = 0
                   THEN Threw("getDeployment", self, "Deployment is not yet initialized.")
                   ELSE ReturnedRef("getDeployment", self, objs[self].appDeployment)
    /\ UNCHANGED heap

getService(self) ==
    /\ lastCall' = IF objs[self].service = 0
                   THEN Threw("getService", self, "Service is not yet initialized.")
                   ELSE ReturnedRef("getService", self, objs[self].service)
    /\ UNCHANGED heap

\* What the chart's getResource("v1/Service", ...).apply(...) resolves to:
\* "unknown-ip" when the chart has no such Service, the first ingress
\* address when it reports one, and a rejection when `ingress[0]` is
\* undefined and reading `.ip` of it throws.
LbIpOutput ==
    IF lb = "absent" THEN "unknown-ip"
    ELSE IF lb = "noIngress" THEN Rejected
    ELSE lb

\* The value of the static getIngressControllerIp() where it does not throw.
IngressControllerIp == LbIpOutput

getIngressControllerIp ==
    /\ lastCall' = IF ingressControllerChart = 0
                   THEN Threw("getIngressControllerIp", 0,
                              "Ingress controller is not yet initialized.")
                   ELSE Returned("getIngressControllerIp", 0, IngressControllerIp)
    /\ UNCHANGED heap

createStorage(self) ==
    /\ resources' = Append(resources,
            Resource("PersistentVolumeClaim", objs[self].name \o "-pvc-rw", self,
                     [namespace |-> getBaseMetadata(self),
                      accessModes |-> <<"ReadWriteOnce">>,
                      storage |-> objs[self].args.storageSize]))
    /\ objs' = [objs EXCEPT ![self].pvc = NextRef]
    /\ lastCall' = Returned("createStorage", self, "")
    /\ UNCHANGED <<statics, log>>

createIngressController(self) ==
    /\ resources' = resources \o
            << Resource("Namespace", "app-svcs", self, [name |-> "app-svcs"]),
               Resource("IngressClass", "defaultIngressClass", self,
                        [name |-> "defaultNginxIngressClass",
                         namespace |-> "app-svcs",
                         controller |-> "k8s.io/nginx-ingress"]),
               Resource("Chart", "nginx", self,
                        [namespace |-> "app-svcs",
                         chart |-> "ingress-nginx",
                         version |-> objs[self].ingressControllerVersion]) >>
    /\ appSvcsNamespace' = NextRef
    /\ defaultIngressClass' = NextRef + 1
    /\ ingressControllerChart' = NextRef + 2
    /\ lastCall' = Returned("createIngressController", self, "")
    /\ UNCHANGED <<objs, log>>

\* A constructor that deploys the controller without looking first.
Mutant_ensureIngressController_always(self) == createIngressController(self)

\* Lines 63-65 of the constructor: create the controller if absent.
ensureIngressController(self) ==
    IF ingressControllerChart = 0
    THEN createIngressController(self)
    ELSE /\ lastCall' = Returned("ensureIngressController", self, "")
         /\ UNCHANGED heap

(* ----------------------------- LangServer ------------------------------ *)

VolumeMount(source, path) == [source |-> source, path |-> path]
EnvVar(name, value) == [name |-> name, value |-> value]

Deployment(self, podName, port, args, envVars, volumeMounts, replicas) ==
    Resource("Deployment", podName, self,
             [name |-> podName,
              namespace |-> getBaseMetadata(self),
              labelsApp |-> podName,
              replicas |-> replicas,
              containerName |-> podName,
              image |-> "botpress/server:" \o objs[self].botpressServerVersion,
              port |-> port,
              command |-> <<"/bin/bash">>,
              args |-> args,
              env |-> envVars,
              volumeMounts |-> volumeMounts])

\* A Service that selects pods by its own name.
Mutant_Service_selectsItself(self, logical, port) ==
    Resource("Service", logical, self,
             [name |-> AutoName(logical),
              namespace |-> getBaseMetadata(self),
              selectorApp |-> logical,
              portName |-> "http",
              port |-> port,
              targetPort |-> port])

Service(self, logical, port) ==
    Resource("Service", logical, self,
             [name |-> AutoName(logical),
              namespace |-> getBaseMetadata(self),
              selectorApp |-> resources[objs[self].appDeployment].args.name,
              portName |-> "http",
              port |-> port,
              targetPort |-> port])

LangServer_createDeployment(self) ==
    IF objs[self].pvc = 0
    THEN /\ lastCall' = Threw("createDeployment", self,
                "PersistentVolumeClaim is not initialized. Cannot create a deployment without it.")
         /\ UNCHANGED heap
    ELSE /\ resources' = Append(resources,
                Deployment(self, "botpress-lang-server", LangServer_SERVER_PORT,
                           <<"-c", "./bp lang --langDir /botpress/data/embeddings">>,
                           <<>>,
                           <<VolumeMount(objs[self].pvc, "/botpress/data")>>,
                           objs[self].args.numReplicas))
         /\ objs' = [objs EXCEPT ![self].appDeployment = NextRef]
         /\ lastCall' = Returned("createDeployment", self, "")
         /\ UNCHANGED <<statics, log>>

LangServer_createService(self) ==
    IF objs[self].appDeployment = 0
    THEN /\ lastCall' = Threw("createService", self,
                "Cannot create a service without a deployment.")
         /\ UNCHANGED heap
    ELSE /\ resources' = Append(resources,
                Service(self, "botpress-lang-server-service", LangServer_SERVER_PORT))
         /\ objs' = [objs EXCEPT ![self].service = NextRef]
         /\ lastCall' = Returned("createService", self, "")
         /\ UNCHANGED <<statics, log>>

\* An endpoint built from the name the Service was declared under instead of
\* the name it carries in the cluster.
Mutant_ServiceEndpoint_logicalName(self) ==
    Interpolate(<<"http://", resources[objs[self].service].name, ".",
                  objs[self].args.namespace, ":",
                  PortString(LangServer_SERVER_PORT)>>)

\* The endpoint string of getServiceEndpoint() for a LangServer whose
\* service is set.
ServiceEndpoint(self) ==
    Interpolate(<<"http://", resources[objs[self].service].args.name, ".",
                  objs[self].args.namespace, ":",
                  PortString(LangServer_SERVER_PORT)>>)

getServiceEndpoint(self) ==
    /\ lastCall' = IF objs[self].service = 0
                   THEN Threw("getServiceEndpoint", self, "Service is not yet initialized.")
                   ELSE Returned("getServiceEndpoint", self, ServiceEndpoint(self))
    /\ UNCHANGED heap

(* ----------------------------- MainServer ------------------------------ *)

\* The privateUri output of a DatabaseConnectionPool, as the provider
\* reports it for the pool declared at `pool`.
PrivateUri(pool) ==
    "postgresql://doadmin:pw@private-bp-db-cluster:25061/"
        \o resources[pool].args.name \o "?sslmode=require"

\* A createDbCluster whose firewall grant names the database cluster
\* instead of the compute cluster.
Mutant_createDbCluster_wrongGrant(self) ==
    /\ resources' = resources \o
            << Resource("DatabaseCluster", "dbCluster", self,
                        [name |-> "bp-db-cluster", version |-> "12",
                         engine |-> "pg", nodeCount |-> 2, region |-> "sfo2",
                         size |-> "db-s-1vcpu-1gb"]),
               Resource("DatabaseDb", "bpDb", self,
                        [name |-> "botpress", clusterId |-> NextRef]),
               Resource("DatabaseConnectionPool", "bpConnectionPool", self,
                        [clusterId |-> NextRef, mode |-> "transaction",
                         size |-> 10, name |-> "bpConnectionPool",
                         dbName |-> "botpress"]),
               Resource("DatabaseFirewall", "dbTrustedResource", self,
                        [clusterId |-> NextRef,
                         rules |-> << [type |-> "k8s",
                                       value |-> "bp-db-cluster"] >>]) >>
    /\ objs' = [objs EXCEPT ![self].dbCluster = NextRef,
                            ![self].dbConnectionPool = NextRef + 2]
    /\ lastCall' = Returned("createDbCluster", self, "")
    /\ UNCHANGED <<statics, log>>

MainServer_createDbCluster(self) ==
    /\ resources' = resources \o
            << Resource("DatabaseCluster", "dbCluster", self,
                        [name |-> "bp-db-cluster", version |-> "12",
                         engine |-> "pg", nodeCount |-> 2, region |-> "sfo2",
                         size |-> IF Truthy(objs[self].args.dbSize)
                                  THEN objs[self].args.dbSize
                                  ELSE "db-s-1vcpu-1gb"]),
               Resource("DatabaseDb", "bpDb", self,
                        [name |-> "botpress", clusterId |-> NextRef]),
               Resource("DatabaseConnectionPool", "bpConnectionPool", self,
                        [clusterId |-> NextRef, mode |-> "transaction",
                         size |-> 10, name |-> "bpConnectionPool",
                         dbName |-> "botpress"]),
               Resource("DatabaseFirewall", "dbTrustedResource", self,
                        [clusterId |-> NextRef,
                         rules |-> << [type |-> "k8s",
                                       value |-> objs[self].args.clusterId] >>]) >>
    /\ objs' = [objs EXCEPT ![self].dbCluster = NextRef,
                            ![self].dbConnectionPool = NextRef + 2]
    /\ lastCall' = Returned("createDbCluster", self, "")
    /\ UNCHANGED <<statics, log>>

\* An EXTERNAL_URL that takes an empty domain name for a configured one.
Mutant_ExternalUrl_emptyDomain(self) ==
    IF objs[self].args.domainName # undefined
    THEN objs[self].args.domainName
    ELSE Interpolate(<<"http://", IngressControllerIp>>)

\* EXTERNAL_URL: the custom domain when one is configured, else an
\* interpolation over the ingress controller's address.
ExternalUrl(self) ==
    IF Truthy(objs[self].args.domainName)
    THEN objs[self].args.domainName
    ELSE Interpolate(<<"http://", IngressControllerIp>>)

\* A DATABASE_URL that leaves the encrypted-transport parameter out.
Mutant_DatabaseUrl_noSsl(self) ==
    IF objs[self].dbConnectionPool # 0
    THEN PrivateUri(objs[self].dbConnectionPool)
    ELSE ""

\* DATABASE_URL: the pool's private URI with `&ssl=1` appended, or "".
DatabaseUrl(self) ==
    IF objs[self].dbConnectionPool # 0
    THEN Interpolate(<<PrivateUri(objs[self].dbConnectionPool), "&ssl=1">>)
    ELSE ""

\* An environment that passes the endpoint bare instead of as a JSON list.
Mutant_env_bareEndpoint(self) ==
    << EnvVar("BP_MODULE_NLU_LANGUAGESOURCES",
              objs[self].args.langServerServiceEndpoint),
       EnvVar("EXTERNAL_URL", ExternalUrl(self)),
       EnvVar("BPFS_STORAGE", objs[self].args.bpfsStorage),
       EnvVar("DATABASE_URL", DatabaseUrl(self)),
       EnvVar("DATABASE_POOL", "{\"min\":3,\"max\":10}"),
       EnvVar("PGSSLMODE", "require") >>

MainServer_env(self) ==
    << EnvVar("BP_MODULE_NLU_LANGUAGESOURCES",
              Interpolate(<<"[{ \"endpoint\": \"",
                            objs[self].args.langServerServiceEndpoint,
                            "\" }]">>)),
       EnvVar("EXTERNAL_URL", ExternalUrl(self)),
       EnvVar("BPFS_STORAGE", objs[self].args.bpfsStorage),
       EnvVar("DATABASE_URL", DatabaseUrl(self)),
       EnvVar("DATABASE_POOL", "{\"min\":3,\"max\":10}"),
       EnvVar("PGSSLMODE", "require") >>

\* Whether createDeployment takes the branch that declares the CA-certificate
\* ConfigMap and mounts it.
UsesDatabase(self) == objs[self].args.bpfsStorage = "database"

CaCertPath == "/usr/local/share/ca-certificates/db-cluster-ca-cert.crt"

\* The resources createDeployment declares before the pod is built.
MainServer_configMap(self) ==
    IF UsesDatabase(self)
    THEN << Resource("ConfigMap", "bp-server-config-map", self,
                     [namespace |-> getBaseMetadata(self),
                      key |-> "db-cluster-ca-cert",
                      caOfCluster |-> objs[self].dbCluster]) >>
    ELSE << >>

MainServer_volumeMounts(self) ==
    << VolumeMount(objs[self].pvc, "/botpress/data") >>
    \o (IF UsesDatabase(self)
        THEN << VolumeMount(NextRef, CaCertPath) >>
        ELSE << >>)

\* A createDeployment that looks for the database cluster only after the
\* ConfigMap with its certificate has been declared.
Mutant_createDeployment_lateDbCheck(self) ==
    IF objs[self].pvc = 0
    THEN /\ lastCall' = Threw("createDeployment", self,
                "PersistentVolumeClaim is not initialized. Cannot create a deployment without it.")
         /\ UNCHANGED heap
    ELSE IF UsesDatabase(self) /\ objs[self].dbCluster = 0
    THEN /\ resources' = resources \o MainServer_configMap(self)
         /\ lastCall' = Threw("createDeployment", self,
                "Botpress storage type database requires a database cluster to be created but it doesn't seem to have been created!")
         /\ UNCHANGED <<objs, statics, log>>
    ELSE IF ~Truthy(objs[self].args.domainName) /\ ingressControllerChart = 0
    THEN /\ resources' = resources \o MainServer_configMap(self)
         /\ lastCall' = Threw("createDeployment", self,
                "Ingress controller is not yet initialized.")
         /\ UNCHANGED <<objs, statics, log>>
    ELSE /\ resources' = resources \o MainServer_configMap(self) \o
                << Deployment(self, "botpress-server", MainServer_SERVER_PORT,
                              <<"-c", "./duckling & ./bp">>,
                              MainServer_env(self),
                              MainServer_volumeMounts(self),
                              objs[self].args.numReplicas) >>
         /\ objs' = [objs EXCEPT ![self].appDeployment =
                                    NextRef + Len(MainServer_configMap(self))]
         /\ lastCall' = Returned("createDeployment", self, "")
         /\ UNCHANGED <<statics, log>>

MainServer_createDeployment(self) ==
    IF objs[self].pvc = 0
    THEN /\ lastCall' = Threw("createDeployment", self,
                "PersistentVolumeClaim is not initialized. Cannot create a deployment without it.")
         /\ UNCHANGED heap
    ELSE IF UsesDatabase(self) /\ objs[self].dbCluster = 0
    THEN /\ lastCall' = Threw("createDeployment", self,
                "Botpress storage type database requires a database cluster to be created but it doesn't seem to have been created!")
         /\ UNCHANGED heap
    ELSE IF ~Truthy(objs[self].args.domainName) /\ ingressControllerChart = 0
    THEN \* getIngressControllerIp() throws while the env is being built
         /\ resources' = resources \o MainServer_configMap(self)
         /\ lastCall' = Threw("createDeployment", self,
                "Ingress controller is not yet initialized.")
         /\ UNCHANGED <<objs, statics, log>>
    ELSE /\ resources' = resources \o MainServer_configMap(self) \o
                << Deployment(self, "botpress-server", MainServer_SERVER_PORT,
                              <<"-c", "./duckling & ./bp">>,
                              MainServer_env(self),
                              MainServer_volumeMounts(self),
                              objs[self].args.numReplicas) >>
         /\ objs' = [objs EXCEPT ![self].appDeployment =
                                    NextRef + Len(MainServer_configMap(self))]
         /\ lastCall' = Returned("createDeployment", self, "")
         /\ UNCHANGED <<statics, log>>

\* A createService that returns without a word when there is no deployment.
Mutant_createService_silent(self) ==
    IF objs[self].appDeployment = 0
    THEN /\ lastCall' = Returned("createService", self, "")
         /\ UNCHANGED heap
    ELSE /\ resources' = Append(resources,
                Service(self, "botpress-server-service", MainServer_SERVER_PORT))
         /\ objs' = [objs EXCEPT ![self].service = NextRef]
         /\ lastCall' = Returned("createService", self, "")
         /\ UNCHANGED <<statics, log>>

MainServer_createService(self) ==
    IF objs[self].appDeployment = 0
    THEN /\ lastCall' = Threw("createService", self,
                "Cannot create a service without a deployment.")
         /\ UNCHANGED heap
    ELSE /\ resources' = Append(resources,
                Service(self, "botpress-server-service", MainServer_SERVER_PORT))
         /\ objs' = [objs EXCEPT ![self].service = NextRef]
         /\ lastCall' = Returned("createService", self, "")
         /\ UNCHANGED <<statics, log>>

\* An Ingress whose rule is always a prefix match.
Mutant_Ingress_prefixOnly(self, name, path, pathType, useRegex) ==
    Resource("Ingress", name, self,
             [namespace |-> objs[self].args.namespace,
              labelsApp |-> resources[objs[self].appDeployment].args.labelsApp,
              ingressClass |-> "nginx",
              useRegex |-> useRegex,
              path |-> path,
              pathType |-> "Prefix",
              backendName |-> resources[objs[self].service].args.name,
              backendPort |-> MainServer_SERVER_PORT])

Ingress(self, name, path, pathType, useRegex) ==
    Resource("Ingress", name, self,
             [namespace |-> objs[self].args.namespace,
              labelsApp |-> resources[objs[self].appDeployment].args.labelsApp,
              ingressClass |-> "nginx",
              useRegex |-> useRegex,
              path |-> path,
              pathType |-> pathType,
              backendName |-> resources[objs[self].service].args.name,
              backendPort |-> MainServer_SERVER_PORT])

\* A createIngressResources that does not look at the object first and
\* names the backend and the labels by hand.
Mutant_createIngressResources_unguarded(self) ==
    /\ resources' = resources \o
            << Resource("Ingress", "assets-ingress", self,
                        [path |-> "/.+/assets/.*", pathType |-> "Prefix",
                         backendName |-> AutoName("botpress-server-service"),
                         backendPort |-> MainServer_SERVER_PORT]),
               Resource("Ingress", "socketio-ingress", self,
                        [path |-> "/socket.io/", pathType |-> "Prefix",
                         backendName |-> AutoName("botpress-server-service"),
                         backendPort |-> MainServer_SERVER_PORT]),
               Resource("Ingress", "root-ingress", self,
                        [path |-> "/", pathType |-> "Exact",
                         backendName |-> AutoName("botpress-server-service"),
                         backendPort |-> MainServer_SERVER_PORT]) >>
    /\ lastCall' = Returned("createIngressResources", self, "")
    /\ UNCHANGED <<objs, statics, log>>

\* A createIngressResources that lets the accessor's exception escape.
Mutant_createIngressResources_rethrow(self) ==
    IF objs[self].appDeployment = 0 \/ objs[self].service = 0
    THEN /\ lastCall' = Threw("createIngressResources", self,
                IF objs[self].appDeployment = 0
                THEN "Deployment is not yet initialized."
                ELSE "Service is not yet initialized.")
         /\ UNCHANGED heap
    ELSE /\ resources' = resources \o
                << Ingress(self, "assets-ingress", "/.+/assets/.*", "Prefix", TRUE),
                   Ingress(self, "socketio-ingress", "/socket.io/", "Prefix", FALSE),
                   Ingress(self, "root-ingress", "/", "Exact", FALSE) >>
         /\ lastCall' = Returned("createIngressResources", self, "")
         /\ UNCHANGED <<objs, statics, log>>

\* The try block of createIngressResources: getDeployment() or getService()
\* throws.
ResourcesNotReady(self) ==
    objs[self].appDeployment = 0 \/ objs[self].service = 0

MainServer_createIngressResources(self) ==
    IF ResourcesNotReady(self)
    THEN /\ log' = Append(log, "Some resources are not yet ready.")
         /\ lastCall' = Returned("createIngressResources", self, "")
         /\ UNCHANGED <<resources, objs, statics>>
    ELSE /\ resources' = resources \o
                << Ingress(self, "assets-ingress", "/.+/assets/.*", "Prefix", TRUE),
                   Ingress(self, "socketio-ingress", "/socket.io/", "Prefix", FALSE),
                   Ingress(self, "root-ingress", "/", "Exact", FALSE) >>
         /\ lastCall' = Returned("createIngressResources", self, "")
         /\ UNCHANGED <<objs, statics, log>>

(* ---------------------------- constructors ----------------------------- *)

\* A constructor that provisions the database whatever the storage mode.
Mutant_provisionAlways(self) == MainServer_createDbCluster(self)

\* Lines 36-38 of the MainServer constructor: the database is provisioned
\* only for storage mode "database".
MainServer_provisionDatabase(self) ==
    IF objs[self].args.bpfsStorage = "database"
    THEN MainServer_createDbCluster(self)
    ELSE /\ lastCall' = Returned("provisionDatabase", self, "")
         /\ UNCHANGED heap

\* The order of the statements of each constructor: the position that
\* follows position `at`.
AppService_ctorNext(at) ==
    CASE at = "AppService" -> "createStorage"
      [] at = "createStorage" -> "ingressController"
      [] OTHER -> "done"

LangServer_ctorNext(at) ==
    CASE at = "ingressController" -> "createDeployment"
      [] at = "createDeployment" -> "createService"
      [] at = "createService" -> "done"
      [] OTHER -> AppService_ctorNext(at)

\* A constructor that builds the ingress rules before the service.
Mutant_ctorNext_ingressFirst(at) ==
    CASE at = "ingressController" -> "provisionDatabase"
      [] at = "provisionDatabase" -> "createDeployment"
      [] at = "createDeployment" -> "createIngressResources"
      [] at = "createIngressResources" -> "createService"
      [] at = "createService" -> "done"
      [] OTHER -> AppService_ctorNext(at)

\* A constructor that forgets the service.
Mutant_ctorNext_noService(at) ==
    CASE at = "ingressController" -> "provisionDatabase"
      [] at = "provisionDatabase" -> "createDeployment"
      [] at = "createDeployment" -> "createIngressResources"
      [] at = "createIngressResources" -> "done"
      [] OTHER -> AppService_ctorNext(at)

MainServer_ctorNext(at) ==
    CASE at = "ingressController" -> "provisionDatabase"
      [] at = "provisionDatabase" -> "createDeployment"
      [] at = "createDeployment" -> "createService"
      [] at = "createService" -> "createIngressResources"
      [] at = "createIngressResources" -> "done"
      [] OTHER -> AppService_ctorNext(at)

CtorNext(cls, at) ==
    CASE cls = "LangServer" -> LangServer_ctorNext(at)
      [] cls = "MainServer" -> MainServer_ctorNext(at)
      [] OTHER -> AppService_ctorNext(at)

RootPcs ==
    {"config", "cluster", "provider", "namespace", "langServer", "mainServer",
     "ingressIp", "domain", "done"}

\* A constructor that swallows the exception of a statement and goes on
\* with the next one.
Mutant_CtorStep_swallow(self, at, Body) ==
    /\ self \in 1..Len(objs)
    /\ ctor = [self |-> self, pc |-> at]
    /\ Body
    /\ pc' = pc
    /\ IF CtorNext(objs[self].cls, at) = "done"
       THEN /\ ctor' = Idle
            /\ status' = [status EXCEPT ![self] = "constructed"]
       ELSE /\ ctor' = [self |-> self, pc |-> CtorNext(objs[self].cls, at)]
            /\ status' = status
    /\ UNCHANGED <<env, root, calls>>

\* One statement of the running constructor.  An exception leaves the
\* constructor at once; under the composition root nothing catches it.
CtorStep(self, at, Body) ==
    /\ self \in 1..Len(objs)
    /\ ctor = [self |-> self, pc |-> at]
    /\ Body
    /\ IF lastCall'.result = "threw"
       THEN /\ ctor' = Idle
            /\ status' = [status EXCEPT ![self] = "failed"]
            /\ pc' = IF pc \in RootPcs THEN "failed" ELSE pc
       ELSE /\ pc' = pc
            /\ IF CtorNext(objs[self].cls, at) = "done"
               THEN /\ ctor' = Idle
                    /\ status' = [status EXCEPT ![self] = "constructed"]
               ELSE /\ ctor' = [self |-> self,
                                pc |-> CtorNext(objs[self].cls, at)]
                    /\ status' = status
    /\ UNCHANGED <<env, root, calls>>

Ctor_AppService(self) ==
    CtorStep(self, "AppService", AppService_constructor(self))

Ctor_createStorage(self) ==
    CtorStep(self, "createStorage", createStorage(self))

Ctor_ingressController(self) ==
    CtorStep(self, "ingressController", ensureIngressController(self))

Ctor_provisionDatabase(self) ==
    CtorStep(self, "provisionDatabase", MainServer_provisionDatabase(self))

Ctor_createDeployment(self) ==
    CtorStep(self, "createDeployment",
             IF objs[self].cls = "MainServer"
             THEN MainServer_createDeployment(self)
             ELSE LangServer_createDeployment(self))

Ctor_createService(self) ==
    CtorStep(self, "createService",
             IF objs[self].cls = "MainServer"
             THEN MainServer_createService(self)
             ELSE LangServer_createService(self))

Ctor_createIngressResources(self) ==
    CtorStep(self, "createIngressResources",
             MainServer_createIngressResources(self))

\* `new C(...)`: allocate the object and enter C's constructor.
New(cls, name, args) ==
    /\ ctor = Idle
    /\ objs' = Append(objs, NewObject(cls, name, args))
    /\ status' = Append(status, "constructing")
    /\ ctor' = [self |-> Len(objs) + 1, pc |-> "AppService"]
    /\ lastCall' = [NoCall EXCEPT !.op = "new", !.self = Len(objs) + 1]

(* -------------------------- composition root -------------------------- *)

NoRoot ==
    [doksVersion |-> undefined, domainName |-> undefined, cluster |-> 0,
     provider |-> 0, appsNamespace |-> 0, langServer |-> 0, mainServer |-> 0,
     ingressIp |-> undefined, domain |-> 0]

\* The composition root runs while no constructor is running and no
\* exception has escaped.
RootAt(at) == pc = at /\ ctor = Idle

Root_config ==
    /\ RootAt("config")
    /\ root' = [root EXCEPT
            !.doksVersion = IF Truthy(config.doksVersion)
                            THEN config.doksVersion ELSE "1.21.5-do.0",
            !.domainName = config.customDomain]
    /\ pc' = "cluster"
    /\ UNCHANGED <<env, heap, lastCall, ctor, status, calls>>

Root_cluster ==
    /\ RootAt("cluster")
    /\ resources' = Append(resources,
            Resource("KubernetesCluster", "botpressCluster", 0,
                     [name |-> "botpress-cluster", region |-> "sfo2",
                      version |-> root.doksVersion, nodeCount |-> 2,
                      id |-> "doks-1"]))
    /\ root' = [root EXCEPT !.cluster = NextRef]
    /\ pc' = "provider"
    /\ UNCHANGED <<env, objs, statics, log, lastCall, ctor, status, calls>>

Root_provider ==
    /\ RootAt("provider")
    /\ resources' = Append(resources,
            Resource("Provider", "doK8s", 0, [cluster |-> root.cluster]))
    /\ root' = [root EXCEPT !.provider = NextRef]
    /\ pc' = "namespace"
    /\ UNCHANGED <<env, objs, statics, log, lastCall, ctor, status, calls>>

Root_namespace ==
    /\ RootAt("namespace")
    /\ resources' = Append(resources,
            Resource("Namespace", "apps", 0, [name |-> "apps"]))
    /\ root' = [root EXCEPT !.appsNamespace = NextRef]
    /\ pc' = "langServer"
    /\ UNCHANGED <<env, objs, statics, log, lastCall, ctor, status, calls>>

Root_langServer ==
    /\ RootAt("langServer")
    /\ New("LangServer", "lang-server",
           AppServiceArgs(resources[root.cluster].args.id,
                          resources[root.appsNamespace].args.name, 1, "5Gi"))
    /\ root' = [root EXCEPT !.langServer = Len(objs) + 1]
    /\ pc' = "mainServer"
    /\ UNCHANGED <<env, resources, statics, log, calls>>

Root_mainServer ==
    /\ RootAt("mainServer")
    /\ New("MainServer", "main-server",
           MainServerArgs(resources[root.cluster].args.id,
                          resources[root.appsNamespace].args.name, 1, "1Gi",
                          ServiceEndpoint(root.langServer), root.domainName,
                          "disk"))
    /\ root' = [root EXCEPT !.mainServer = Len(objs) + 1]
    /\ pc' = "ingressIp"
    /\ UNCHANGED <<env, resources, statics, log, calls>>

Root_ingressIp ==
    /\ RootAt("ingressIp")
    /\ getIngressControllerIp
    /\ root' = [root EXCEPT !.ingressIp = lastCall'.value]
    /\ pc' = IF lastCall'.result = "threw" THEN "failed" ELSE "domain"
    /\ UNCHANGED <<env, ctor, status, calls>>

\* A composition root that declares the DomainRecord whether or not a custom
\* domain is configured.
Mutant_Root_domain_unconditional ==
    /\ RootAt("domain")
    /\ resources' = Append(resources,
            Resource("Domain", "botpress-domain", 0,
                     [name |-> root.domainName,
                      ipAddress |-> root.ingressIp]))
    /\ root' = [root EXCEPT !.domain = NextRef]
    /\ pc' = "done"
    /\ UNCHANGED <<env, objs, statics, log, lastCall, ctor, status, calls>>

Root_domain ==
    /\ RootAt("domain")
    /\ IF Truthy(root.domainName)
       THEN /\ resources' = Append(resources,
                    Resource("Domain", "botpress-domain", 0,
                             [name |-> root.domainName,
                              ipAddress |-> root.ingressIp]))
            /\ root' = [root EXCEPT !.domain = NextRef]
       ELSE UNCHANGED <<resources, root>>
    /\ pc' = "done"
    /\ UNCHANGED <<env, objs, statics, log, lastCall, ctor, status, calls>>

Init ==
    /\ config \in Configs
    /\ lb \in LbStates
    /\ autoSuffix \in AutoSuffixes
    /\ dynamic = << >>
    /\ requests = << >>
    /\ resources = << >>
    /\ objs = << >>
    /\ status = << >>
    /\ ingressControllerChart = 0
    /\ appSvcsNamespace = 0
    /\ defaultIngressClass = 0
    /\ log = << >>
    /\ lastCall = NoCall
    /\ ctor = Idle
    /\ pc = "config"
    /\ root = NoRoot
    /\ calls = 0

Next ==
    \/ Root_config
    \/ Root_cluster
    \/ Root_provider
    \/ Root_namespace
    \/ Root_langServer
    \/ Root_mainServer
    \/ Root_ingressIp
    \/ Root_domain
    \/ \E self \in 1..Len(objs) : Ctor_AppService(self)
    \/ \E self \in 1..Len(objs) : Ctor_createStorage(self)
    \/ \E self \in 1..Len(objs) : Ctor_ingressController(self)
    \/ \E self \in 1..Len(objs) : Ctor_provisionDatabase(self)
    \/ \E self \in 1..Len(objs) : Ctor_createDeployment(self)
    \/ \E self \in 1..Len(objs) : Ctor_createService(self)
    \/ \E self \in 1..Len(objs) : Ctor_createIngressResources(self)

\* The program as written: the composition root of index.ts.
Spec == Init /\ [][Next]_vars

(* ------------------- a client of the exported classes ----------------- *)

\* A client program constructs components in any order and with any
\* arguments, catches what their constructors throw, and calls the public
\* accessors of the objects it holds.
InitClient ==
    /\ config \in {c \in Configs : c.doksVersion = undefined
                                   /\ c.customDomain = undefined}
    /\ lb \in LbStates
    /\ autoSuffix \in AutoSuffixes
    /\ dynamic = << >>
    /\ requests = << >>
    /\ resources = << >>
    /\ objs = << >>
    /\ status = << >>
    /\ ingressControllerChart = 0
    /\ appSvcsNamespace = 0
    /\ defaultIngressClass = 0
    /\ log = << >>
    /\ lastCall = NoCall
    /\ ctor = Idle
    /\ pc = "client"
    /\ root = NoRoot
    /\ calls = 0

ClientFrame == UNCHANGED <<env, resources, statics, log, pc, root, calls>>

Client_newAppService ==
    /\ Len(objs) < MaxObjs
    /\ \E id \in ClusterIds, ns \in Namespaces :
           New("AppService", "app-service", AppServiceArgs(id, ns, 1, "1Gi"))
    /\ ClientFrame

Client_newLangServer ==
    /\ Len(objs) < MaxObjs
    /\ \E id \in ClusterIds, ns \in Namespaces :
           New("LangServer", "lang-server", AppServiceArgs(id, ns, 1, "5Gi"))
    /\ ClientFrame

Client_newMainServer ==
    /\ Len(objs) < MaxObjs
    /\ \E id \in ClusterIds, ns \in Namespaces, domain \in DomainNames,
          storage \in BpfsStorages :
           New("MainServer", "main-server",
               MainServerArgs(id, ns, 1, "1Gi", DefaultLangEndpoint, domain,
                              storage))
    /\ ClientFrame

\* The objects a client holds: those whose constructor returned.
Held == {i \in 1..Len(objs) : status[i] = "constructed"}

AccessorFrame == UNCHANGED <<env, ctor, status, pc, root, calls>>

Client_getDeployment ==
    \E self \in Held : ctor = Idle /\ getDeployment(self) /\ AccessorFrame

Client_getService ==
    \E self \in Held : ctor = Idle /\ getService(self) /\ AccessorFrame

Client_getServiceEndpoint ==
    \E self \in Held :
        /\ ctor = Idle
        /\ objs[self].cls = "LangServer"
        /\ getServiceEndpoint(self)
        /\ AccessorFrame

Client_getIngressControllerIp ==
    ctor = Idle /\ getIngressControllerIp /\ AccessorFrame

NextClient ==
    \/ Client_newAppService
    \/ Client_newLangServer
    \/ Client_newMainServer
    \/ Client_getDeployment
    \/ Client_getService
    \/ Client_getServiceEndpoint
    \/ Client_getIngressControllerIp
    \/ \E self \in 1..Len(objs) : Ctor_AppService(self)
    \/ \E self \in 1..Len(objs) : Ctor_createStorage(self)
    \/ \E self \in 1..Len(objs) : Ctor_ingressController(self)
    \/ \E self \in 1..Len(objs) : Ctor_provisionDatabase(self)
    \/ \E self \in 1..Len(objs) : Ctor_createDeployment(self)
    \/ \E self \in 1..Len(objs) : Ctor_createService(self)
    \/ \E self \in 1..Len(objs) : Ctor_createIngressResources(self)

SpecClient == InitClient /\ [][NextClient]_vars

(* ------------------------- the methods, one by one --------------------- *)

\* Each method of the classes applied on its own: one object of each
\* subclass, allocated with its arguments and the versions read from the
\* configuration, on which the methods are called in any order.
HarnessObject(cls, name, args) ==
    [NewObject(cls, name, args) EXCEPT
        !.ingressControllerVersion = "4.0.6",
        !.botpressServerVersion = "12_30_1"]

InitMethods ==
    /\ config = [ingressControllerVersion |-> "4.0.6",
                 botpressServerVersion |-> "12_30_1",
                 doksVersion |-> undefined, customDomain |-> undefined]
    /\ lb \in LbStates
    /\ autoSuffix = ""
    /\ dynamic = << >>
    /\ requests = << >>
    /\ resources = << >>
    /\ \E domain \in DomainNames, storage \in BpfsStorages, cls \in {"LangServer", "MainServer"} :
           objs = << IF cls = "LangServer"
                     THEN HarnessObject("LangServer", "lang-server",
                                        AppServiceArgs("doks-1", "apps", 1, "5Gi"))
                     ELSE HarnessObject("MainServer", "main-server",
                                        MainServerArgs("doks-1", "apps", 1, "1Gi",
                                                       DefaultLangEndpoint,
                                                       domain, storage)) >>
    /\ status = << "constructing" >>
    /\ ingressControllerChart = 0
    /\ appSvcsNamespace = 0
    /\ defaultIngressClass = 0
    /\ log = << >>
    /\ lastCall = NoCall
    /\ ctor = Idle
    /\ pc = "methods"
    /\ root = NoRoot
    /\ calls = 0

\* One call of a method on an object of class `cls`.
Call(self, cls, Body) ==
    /\ calls < MaxCalls
    /\ ctor = Idle
    /\ status[self] = "constructing"
    /\ objs[self].cls \in cls
    /\ Body
    /\ calls' = calls + 1
    /\ UNCHANGED <<env, ctor, status, pc, root>>

AnyClass == {"AppService", "LangServer", "MainServer"}

Call_createStorage ==
    \E self \in 1..Len(objs) : Call(self, AnyClass, createStorage(self))

Call_createIngressController ==
    \E self \in 1..Len(objs) : Call(self, AnyClass, createIngressController(self))

Call_getDeployment ==
    \E self \in 1..Len(objs) : Call(self, AnyClass, getDeployment(self))

Call_getService ==
    \E self \in 1..Len(objs) : Call(self, AnyClass, getService(self))

Call_getIngressControllerIp ==
    \E self \in 1..Len(objs) : Call(self, AnyClass, getIngressControllerIp)

Call_LangServer_createDeployment ==
    \E self \in 1..Len(objs) :
        Call(self, {"LangServer"}, LangServer_createDeployment(self))

Call_LangServer_createService ==
    \E self \in 1..Len(objs) :
        Call(self, {"LangServer"}, LangServer_createService(self))

Call_getServiceEndpoint ==
    \E self \in 1..Len(objs) :
        Call(self, {"LangServer"}, getServiceEndpoint(self))

Call_MainServer_createDbCluster ==
    \E self \in 1..Len(objs) :
        Call(self, {"MainServer"}, MainServer_createDbCluster(self))

Call_MainServer_createDeployment ==
    \E self \in 1..Len(objs) :
        Call(self, {"MainServer"}, MainServer_createDeployment(self))

Call_MainServer_createService ==
    \E self \in 1..Len(objs) :
        Call(self, {"MainServer"}, MainServer_createService(self))

Call_MainServer_createIngressResources ==
    \E self \in 1..Len(objs) :
        Call(self, {"MainServer"}, MainServer_createIngressResources(self))

NextMethods ==
    \/ Call_createStorage
    \/ Call_createIngressController
    \/ Call_getDeployment
    \/ Call_getService
    \/ Call_getIngressControllerIp
    \/ Call_LangServer_createDeployment
    \/ Call_LangServer_createService
    \/ Call_getServiceEndpoint
    \/ Call_MainServer_createDbCluster
    \/ Call_MainServer_createDeployment
    \/ Call_MainServer_createService
    \/ Call_MainServer_createIngressResources

SpecMethods == InitMethods /\ [][NextMethods]_vars

(* ---------------- the constructor bodies on a prepared object ------------ *)

\* The statements of a constructor body that follow super()'s reading of
\* the configuration.
BodyPositions(cls) ==
    IF cls = "MainServer"
    THEN {"createStorage", "ingressController", "provisionDatabase",
          "createDeployment", "createService", "createIngressResources"}
    ELSE IF cls = "LangServer"
    THEN {"createStorage", "ingressController", "createDeployment",
          "createService"}
    ELSE {"createStorage", "ingressController"}

\* The constructor body entered at one of its statements on the harness
\* object, whatever the methods called so far have left in its fields: the
\* statements from there on run in the constructor's order, and an
\* exception ends them.
Call_constructorFrom ==
    \E self \in 1..Len(objs) :
        \E at \in BodyPositions(objs[self].cls) :
            /\ calls < MaxCalls
            /\ ctor = Idle
            /\ status[self] = "constructing"
            /\ ctor' = [self |-> self, pc |-> at]
            /\ lastCall' = [NoCall EXCEPT !.op = "constructor", !.self = self]
            /\ calls' = calls + 1
            /\ UNCHANGED <<env, heap, status, pc, root>>

NextBody ==
    \/ Call_createStorage
    \/ Call_createIngressController
    \/ Call_LangServer_createDeployment
    \/ Call_MainServer_createDbCluster
    \/ Call_MainServer_createDeployment
    \/ Call_constructorFrom
    \/ \E self \in 1..Len(objs) : Ctor_createStorage(self)
    \/ \E self \in 1..Len(objs) : Ctor_ingressController(self)
    \/ \E self \in 1..Len(objs) : Ctor_provisionDatabase(self)
    \/ \E self \in 1..Len(objs) : Ctor_createDeployment(self)
    \/ \E self \in 1..Len(objs) : Ctor_createService(self)
    \/ \E self \in 1..Len(objs) : Ctor_createIngressResources(self)

\* The constructor bodies run on an object the methods have prepared.
SpecBody == InitMethods /\ [][NextBody]_vars

(* ------------------ the IncomingResource dynamic resource --------------- *)

K8sClusterIds == {"doks-1", "doks-2"}
DbClusterIds == {"db-1", "db-2"}
Uuids == {"uuid-1", "uuid-2", "uuid-3"}

\* What a property read yields on the object handed to the engine.
IncomingResourceArgs(k8sClusterId, dbClusterId) ==
    [k8sClusterId |-> k8sClusterId, dbClusterId |-> dbClusterId]

\* The empty object literal {}: every property reads as undefined.
EmptyProps == IncomingResourceArgs(undefined, undefined)

\* new IncomingResource(name, inputs): the constructor registers the
\* resource with a new provider and with {} as its properties.
IncomingResource_constructor(inputs) ==
    /\ dynamic' = Append(dynamic,
            [inputs |-> inputs, props |-> EmptyProps, id |-> undefined])
    /\ UNCHANGED requests

\* The ids create() has drawn so far.
UsedUuids == {dynamic[r].id : r \in 1..Len(dynamic)}

\* IncomingResourceProvider.create(inputs) with the value uuidv4() drew.
IncomingResourceProvider_create(r, inputs, id) ==
    /\ requests' = Append(requests,
            [database_cluster_id |-> inputs.dbClusterId,
             rules |-> << [type |-> "k8s",
                           value |-> inputs.k8sClusterId,
                           uuid |-> id,
                           cluster_uuid |-> inputs.dbClusterId] >>])
    /\ dynamic' = [dynamic EXCEPT ![r].id = id]

DynamicFrame ==
    UNCHANGED <<config, lb, autoSuffix, heap, lastCall, ctor, status, pc,
                root, calls>>

\* The program declares an IncomingResource.
Program_newIncomingResource ==
    /\ Len(dynamic) < MaxDynamic
    /\ \E k \in K8sClusterIds, d \in DbClusterIds :
           IncomingResource_constructor(IncomingResourceArgs(k, d))
    /\ DynamicFrame

\* The engine creates a registered resource: it calls the provider's create
\* with the properties the resource was registered with.  uuidv4() draws 122
\* random bits, a value not drawn before.
Engine_create ==
    /\ \E r \in 1..Len(dynamic) :
           /\ dynamic[r].id = undefined
           /\ \E id \in Uuids \ UsedUuids :
                  IncomingResourceProvider_create(r, dynamic[r].props, id)
    /\ DynamicFrame

\* A program that has declared nothing yet.
InitDynamic ==
    /\ InitClient
    /\ config.ingressControllerVersion = "4.0.6"
    /\ config.botpressServerVersion = "12_30_1"
    /\ lb = "absent"
    /\ autoSuffix = ""

NextDynamic ==
    \/ Program_newIncomingResource
    \/ Engine_create

\* Programs that declare IncomingResources, and the engine deploying them.
SpecDynamic == InitDynamic /\ [][NextDynamic]_vars

(* ------------------------------ properties ---------------------------- *)

\* The resources of a type that object `self` declared.
ResOf(self, type) ==
    {k \in 1..Len(resources) :
        resources[k].by = self /\ resources[k].type = type}

MainServers == {i \in 1..Len(objs) : objs[i].cls = "MainServer"}

HasEnv(dep, name, value) ==
    \E k \in 1..Len(resources[dep].args.env) :
        /\ resources[dep].args.env[k].name = name
        /\ resources[dep].args.env[k].value = value

DatabaseTypes ==
    {"DatabaseCluster", "DatabaseDb", "DatabaseConnectionPool", "DatabaseFirewall"}

\* C1: a MainServer in storage mode "disk" never declares a database
\* cluster, database, connection pool, firewall or CA-certificate ConfigMap,
\* and once its constructor has finished its deployment mounts the storage
\* claim at /botpress/data and nothing else.
C1_DiskHasNoDatabase ==
    \A i \in MainServers :
        objs[i].args.bpfsStorage = "disk" =>
            /\ \A t \in DatabaseTypes \cup {"ConfigMap"} : ResOf(i, t) = {}
            /\ status[i] = "constructed" =>
                   /\ Cardinality(ResOf(i, "Deployment")) = 1
                   /\ \A d \in ResOf(i, "Deployment") :
                          /\ Len(resources[d].args.volumeMounts) = 1
                          /\ resources[d].args.volumeMounts[1].path = "/botpress/data"
                          /\ resources[d].args.volumeMounts[1].source \in
                                 ResOf(i, "PersistentVolumeClaim")

C1_Witness ==
    \E i \in MainServers :
        /\ objs[i].args.bpfsStorage = "disk"
        /\ status[i] = "constructed"
        /\ ResOf(i, "Deployment") # {}

\* C2: every deployment a MainServer in storage mode "database" declares
\* carries a non-empty DATABASE_URL equal to the private URI of that
\* MainServer's connection pool followed by "&ssl=1", and mounts the
\* CA-certificate ConfigMap.
C2_DatabaseUrlAndCaMount ==
    \A i \in MainServers :
        objs[i].args.bpfsStorage = "database" =>
            \A d \in ResOf(i, "Deployment") :
                /\ ~HasEnv(d, "DATABASE_URL", "")
                /\ \E p \in ResOf(i, "DatabaseConnectionPool") :
                       /\ p < d
                       /\ HasEnv(d, "DATABASE_URL", PrivateUri(p) \o "&ssl=1")
                /\ \E m \in 1..Len(resources[d].args.volumeMounts) :
                       /\ resources[d].args.volumeMounts[m].path = CaCertPath
                       /\ resources[d].args.volumeMounts[m].source \in
                              ResOf(i, "ConfigMap")

C2_Witness ==
    \E i \in MainServers :
        /\ objs[i].args.bpfsStorage = "database"
        /\ status[i] = "constructed"
        /\ ResOf(i, "Deployment") # {}

\* C3: a call of createIngressResources made while the deployment or the
\* service of the MainServer is not set declares no resource, logs one
\* informational message, returns without throwing and leaves the object
\* and the static fields as they were.
C3_IngressSoftNoOp ==
    [][ (lastCall'.op = "createIngressResources"
            /\ (objs[lastCall'.self].appDeployment = 0
                    \/ objs[lastCall'.self].service = 0))
        => /\ lastCall'.result = "returned"
           /\ resources' = resources
           /\ objs' = objs
           /\ statics' = statics
           /\ log' = Append(log, "Some resources are not yet ready.") ]_vars

C3_Witness ==
    /\ lastCall.op = "createIngressResources"
    /\ lastCall.result = "returned"
    /\ objs[lastCall.self].appDeployment # 0
    /\ objs[lastCall.self].service = 0
    /\ ResOf(lastCall.self, "Ingress") = {}
    /\ Len(log) = 1

\* C4: for LangServer and MainServer alike, a call of createService made
\* while the deployment is not set throws "Cannot create a service without
\* a deployment.", declares no Service and sets no field.
C4_ServiceNeedsDeployment ==
    [][ (lastCall'.op = "createService"
            /\ objs[lastCall'.self].cls \in {"LangServer", "MainServer"}
            /\ objs[lastCall'.self].appDeployment = 0)
        => /\ lastCall'.result = "threw"
           /\ lastCall'.error = "Cannot create a service without a deployment."
           /\ resources' = resources
           /\ objs' = objs
           /\ statics' = statics ]_vars

C4_Witness ==
    /\ lastCall.op = "createService"
    /\ lastCall.result = "threw"
    /\ objs[lastCall.self].cls = "MainServer"
    /\ objs[lastCall.self].pvc # 0
    /\ objs[lastCall.self].appDeployment = 0
    /\ ResOf(lastCall.self, "Service") = {}

\* The objects whose AppService constructor has run to its end.
PastSuper ==
    {i \in 1..Len(objs) :
        \/ status[i] = "constructed"
        \/ /\ ctor.self = i
           /\ ctor.pc \notin {"AppService", "createStorage", "ingressController"}}

\* C5: however many components are constructed, and in whatever order, the
\* ingress controller chart and the "app-svcs" namespace are declared at most
\* once; the first construction that gets that far declares them and the
\* static fields keep pointing at them.
C5_IngressControllerOnce ==
    LET charts == {k \in 1..Len(resources) : resources[k].type = "Chart"}
        spaces == {k \in 1..Len(resources) :
                      /\ resources[k].type = "Namespace"
                      /\ resources[k].name = "app-svcs"}
    IN  /\ Cardinality(charts) <= 1
        /\ Cardinality(spaces) <= 1
        /\ PastSuper # {} =>
               /\ charts = {ingressControllerChart}
               /\ spaces = {appSvcsNamespace}
               /\ \A k \in charts \cup spaces :
                      \A i \in PastSuper : resources[k].by <= i

C5_Witness ==
    /\ Cardinality({i \in 1..Len(objs) : status[i] = "constructed"}) >= 2
    /\ \E i, j \in 1..Len(objs) :
           /\ objs[i].cls = "LangServer" /\ status[i] = "constructed"
           /\ objs[j].cls = "MainServer" /\ status[j] = "constructed"
    /\ Cardinality({k \in 1..Len(resources) : resources[k].type = "Chart"}) = 1

\* C6: in the program as composed by index.ts (namespace "apps", a
\* LangServer with 1 replica and 5Gi, a MainServer in mode "disk" with 1
\* replica and 1Gi), a MainServer that was fed the endpoint
\* http://botpress-lang-server-service.apps:3100 ends up with a deployment whose
\* environment holds BP_MODULE_NLU_LANGUAGESOURCES =
\* [{ "endpoint": "http://botpress-lang-server-service.apps:3100" }] and
\* BPFS_STORAGE = disk, and with exactly three ingress rules.
C6_EndToEnd ==
    (/\ root.mainServer # 0
     /\ status[root.mainServer] = "constructed"
     /\ objs[root.mainServer].args.langServerServiceEndpoint =
            "http://botpress-lang-server-service.apps:3100")
    => LET m == root.mainServer
           l == root.langServer
       IN  /\ objs[l].args.namespace = "apps"
           /\ objs[l].args.numReplicas = 1
           /\ objs[l].args.storageSize = "5Gi"
           /\ objs[m].args.namespace = "apps"
           /\ objs[m].args.numReplicas = 1
           /\ objs[m].args.storageSize = "1Gi"
           /\ objs[m].args.bpfsStorage = "disk"
           /\ Cardinality(ResOf(m, "Deployment")) = 1
           /\ \A d \in ResOf(m, "Deployment") :
                  /\ HasEnv(d, "BP_MODULE_NLU_LANGUAGESOURCES",
                        "[{ \"endpoint\": \"http://botpress-lang-server-service.apps:3100\" }]")
                  /\ HasEnv(d, "BPFS_STORAGE", "disk")
           /\ Cardinality(ResOf(m, "Ingress")) = 3

C6_Witness ==
    /\ pc = "done"
    /\ status[root.mainServer] = "constructed"
    /\ objs[root.mainServer].args.langServerServiceEndpoint =
           "http://botpress-lang-server-service.apps:3100"
    /\ Cardinality(ResOf(root.mainServer, "Ingress")) = 3

\* The step of the MainServer constructor that declares a resource type.
Stage(type) ==
    CASE type \in DatabaseTypes -> 1
      [] type \in {"ConfigMap", "Deployment"} -> 2
      [] type = "Service" -> 3
      [] type = "Ingress" -> 4
      [] OTHER -> 0

\* The resources object `self` declared at a step of its constructor.
AtStage(self, n) ==
    {k \in 1..Len(resources) :
        resources[k].by = self /\ Stage(resources[k].type) = n}

\* C7: a MainServer is constructed in the order (a) database provisioning,
\* for storage mode "database" only, (b) deployment, (c) service, (d) the
\* three ingress rules: what a later step declares comes after everything an
\* earlier step declares, a later step declares nothing before the earlier
\* ones are complete, and a finished constructor has made every step.
C7_ConstructionOrder ==
    \A i \in MainServers :
        LET db == objs[i].args.bpfsStorage = "database" IN
        /\ \A a, b \in 1..Len(resources) :
               (resources[a].by = i /\ resources[b].by = i /\ a < b)
                   => Stage(resources[a].type) <= Stage(resources[b].type)
        /\ ~db => AtStage(i, 1) = {}
        /\ (db /\ AtStage(i, 2) # {}) =>
               \A t \in DatabaseTypes : Cardinality(ResOf(i, t)) = 1
        /\ AtStage(i, 3) # {} => Cardinality(ResOf(i, "Deployment")) = 1
        /\ AtStage(i, 4) # {} => Cardinality(ResOf(i, "Service")) = 1
        /\ status[i] = "constructed" =>
               /\ Cardinality(ResOf(i, "Deployment")) = 1
               /\ Cardinality(ResOf(i, "Service")) = 1
               /\ Cardinality(ResOf(i, "Ingress")) = 3
               /\ db => \A t \in DatabaseTypes : Cardinality(ResOf(i, t)) = 1

C7_Witness ==
    \E i \in MainServers :
        /\ objs[i].args.bpfsStorage = "database"
        /\ status[i] = "constructed"
        /\ \A n \in 1..4 : AtStage(i, n) # {}

\* C8: whenever an ingress rule of a MainServer has been declared, the
\* deployment and the service of that MainServer are set and were declared
\* before the rule.
C8_IngressAfterDeploymentAndService ==
    \A k \in 1..Len(resources) :
        resources[k].type = "Ingress" =>
            LET i == resources[k].by IN
            /\ resources[k].name \in
                   {"assets-ingress", "socketio-ingress", "root-ingress"}
            /\ objs[i].appDeployment \in ResOf(i, "Deployment")
            /\ objs[i].service \in ResOf(i, "Service")
            /\ \E d \in ResOf(i, "Deployment") : d < k
            /\ \E v \in ResOf(i, "Service") : v < k

C8_Witness ==
    /\ lastCall.op = "createIngressResources"
    /\ Cardinality(ResOf(lastCall.self, "Ingress")) = 3
    /\ objs[lastCall.self].appDeployment # 0
    /\ objs[lastCall.self].service # 0

\* The EXTERNAL_URL of every deployment the MainServers declared is `url`
\* applied to the MainServer.
ExternalUrlIs(url(_)) ==
    \A i \in MainServers :
        \A d \in ResOf(i, "Deployment") : HasEnv(d, "EXTERNAL_URL", url(i))

\* C9 as stated: EXTERNAL_URL is the custom domain name verbatim when it is
\* set and non-empty, and otherwise the address getIngressControllerIp()
\* returns.
C9_Original ==
    LET url(i) == IF objs[i].args.domainName \notin {undefined, ""}
                  THEN objs[i].args.domainName
                  ELSE IngressControllerIp
    IN  ExternalUrlIs(url)

\* C9 amended: EXTERNAL_URL is the custom domain name verbatim when it is
\* set and non-empty, and otherwise "http://" followed by the address
\* getIngressControllerIp() returns (and rejected when that address is).
C9_ExternalUrl ==
    LET url(i) == IF objs[i].args.domainName \notin {undefined, ""}
                  THEN objs[i].args.domainName
                  ELSE IF IngressControllerIp = Rejected
                  THEN Rejected
                  ELSE "http://" \o IngressControllerIp
    IN  ExternalUrlIs(url)

C9_Witness ==
    /\ lb = LbIp
    /\ \E i, j \in MainServers :
           /\ status[i] = "constructed" /\ status[j] = "constructed"
           /\ objs[i].args.domainName = "bot.example.com"
           /\ objs[j].args.domainName = ""
           /\ \E d \in ResOf(j, "Deployment") :
                  HasEnv(d, "EXTERNAL_URL", "http://203.0.113.10")

\* C10: getDeployment() and getService() throw "... is not yet initialized."
\* exactly when the object has declared no such resource and return the
\* resource the object holds otherwise; the static getIngressControllerIp()
\* throws "Ingress controller is not yet initialized." exactly when no
\* AppService has been constructed; none of the three changes anything.
C10_Accessors ==
    [][ LET self == lastCall'.self
            same == /\ resources' = resources
                    /\ objs' = objs
                    /\ statics' = statics
                    /\ log' = log
                    /\ status' = status
        IN
        /\ lastCall'.op = "getDeployment" =>
               /\ same
               /\ IF ResOf(self, "Deployment") = {}
                  THEN /\ lastCall'.result = "threw"
                       /\ lastCall'.error = "Deployment is not yet initialized."
                  ELSE /\ lastCall'.result = "returned"
                       /\ lastCall'.ref = objs[self].appDeployment
                       /\ lastCall'.ref \in ResOf(self, "Deployment")
        /\ lastCall'.op = "getService" =>
               /\ same
               /\ IF ResOf(self, "Service") = {}
                  THEN /\ lastCall'.result = "threw"
                       /\ lastCall'.error = "Service is not yet initialized."
                  ELSE /\ lastCall'.result = "returned"
                       /\ lastCall'.ref = objs[self].service
                       /\ lastCall'.ref \in ResOf(self, "Service")
        /\ lastCall'.op = "getIngressControllerIp" =>
               /\ same
               /\ IF PastSuper = {}
                  THEN /\ lastCall'.result = "threw"
                       /\ lastCall'.error = "Ingress controller is not yet initialized."
                  ELSE lastCall'.result = "returned" ]_vars

C10_Witness ==
    /\ lastCall.op = "getDeployment"
    /\ lastCall.result = "threw"
    /\ lastCall.error = "Deployment is not yet initialized."
    /\ status[lastCall.self] = "constructed"
    /\ objs[lastCall.self].appDeployment = 0

\* C11: getServiceEndpoint() returns http://<service-name>.<namespace>:<port>
\* where <service-name> is the metadata.name of the LangServer's own Service,
\* <namespace> the namespace the LangServer was given and <port> 3100, the
\* port of that Service and of the LangServer's container.
C11_ServiceEndpoint ==
    (lastCall.op = "getServiceEndpoint" /\ lastCall.result = "returned") =>
        LET i == lastCall.self IN
        /\ objs[i].cls = "LangServer"
        /\ \E v \in ResOf(i, "Service") :
               /\ lastCall.value =
                      "http://" \o resources[v].args.name \o "."
                          \o objs[i].args.namespace \o ":3100"
               /\ resources[v].args.port = 3100
               /\ resources[v].args.targetPort = 3100
        /\ \A d \in ResOf(i, "Deployment") : resources[d].args.port = 3100

C11_Witness ==
    /\ lastCall.op = "getServiceEndpoint"
    /\ lastCall.result = "returned"
    /\ autoSuffix # ""
    /\ lastCall.value = "http://botpress-lang-server-service-a1b2c3d4.apps:3100"

\* One routing rule as C12 states it: path, match kind, whether the path is
\* a regular expression, and the MainServer's own Service on port 3000 as
\* its target.
IsRule(r, i, path, pathType, useRegex) ==
    /\ r.type = "Ingress"
    /\ r.by = i
    /\ r.args.path = path
    /\ r.args.pathType = pathType
    /\ r.args.useRegex = useRegex
    /\ objs[i].service \in ResOf(i, "Service")
    /\ r.args.backendName = resources[objs[i].service].args.name
    /\ r.args.backendPort = 3000
    /\ resources[objs[i].service].args.port = 3000

\* C12: whenever createIngressResources creates anything, it creates exactly
\* three rules: /.+/assets/.* as a prefix match with regex enabled,
\* /socket.io/ as a prefix match and / as an exact match, each targeting the
\* MainServer's own Service on port 3000.
C12_ThreeFixedRules ==
    [][ (lastCall'.op = "createIngressResources" /\ resources' # resources) =>
            LET i == lastCall'.self
                n == Len(resources) IN
            /\ Len(resources') = n + 3
            /\ SubSeq(resources', 1, n) = resources
            /\ IsRule(resources'[n + 1], i, "/.+/assets/.*", "Prefix", TRUE)
            /\ IsRule(resources'[n + 2], i, "/socket.io/", "Prefix", FALSE)
            /\ IsRule(resources'[n + 3], i, "/", "Exact", FALSE) ]_vars

C12_Witness ==
    /\ lastCall.op = "createIngressResources"
    /\ Len(resources) >= 3
    /\ resources[Len(resources)].type = "Ingress"
    /\ resources[Len(resources)].args.path = "/"
    /\ resources[Len(resources) - 2].args.path = "/.+/assets/.*"

\* The database mode of C13: a MainServer whose bpfsStorage is "database"
\* and whose dbCluster is not set.
MissingDbCluster(i) ==
    /\ objs[i].cls = "MainServer"
    /\ objs[i].args.bpfsStorage = "database"
    /\ objs[i].dbCluster = 0

\* C13: createDeployment called while the storage claim is not set, or in
\* database mode while no database cluster is present, raises an error and
\* declares nothing: no Deployment, no ConfigMap, and no field of the object
\* changes.
C13_DeploymentFailsFast ==
    [][ (/\ lastCall'.op = "createDeployment"
         /\ (objs[lastCall'.self].pvc = 0 \/ MissingDbCluster(lastCall'.self)))
        => /\ lastCall'.result = "threw"
           /\ lastCall'.error \in
                 {"PersistentVolumeClaim is not initialized. Cannot create a deployment without it.",
                  "Botpress storage type database requires a database cluster to be created but it doesn't seem to have been created!"}
           /\ resources' = resources
           /\ objs' = objs ]_vars

C13_Witness ==
    /\ lastCall.op = "createDeployment"
    /\ lastCall.result = "threw"
    /\ objs[lastCall.self].pvc # 0
    /\ MissingDbCluster(lastCall.self)
    /\ ResOf(lastCall.self, "ConfigMap") = {}
    /\ ResOf(lastCall.self, "Deployment") = {}

\* The types of the resources the composition root declares itself, in the
\* order of their declaration.
TopLevelTypes ==
    LET top == SelectSeq(resources, LAMBDA r : r.by = 0)
    IN  [k \in 1..Len(top) |-> top[k].type]

\* The classes of the components constructed so far, in order.
ComponentClasses == [i \in 1..Len(objs) |-> objs[i].cls]

\* s is an initial part of t.
IsPrefix(s, t) == Len(s) <= Len(t) /\ s = SubSeq(t, 1, Len(s))

\* Everything component i declared comes after resource k.
DeclaredAfter(i, k) ==
    \A j \in 1..Len(resources) : resources[j].by = i => j > k

\* C14: the composition root builds cluster, provider, "apps" namespace,
\* LangServer, MainServer (given the LangServer's endpoint), the exported
\* ingress address and the DomainRecord in that order, each step after the
\* one before it is complete; the DomainRecord exists if and only if a
\* custom domain is configured and maps that domain to the exported ingress
\* address; nothing else is declared at the top level.
C14_LinearRoot ==
    /\ IsPrefix(TopLevelTypes,
                <<"KubernetesCluster", "Provider", "Namespace", "Domain">>)
    /\ IsPrefix(ComponentClasses, <<"LangServer", "MainServer">>)
    /\ Len(objs) >= 1 =>
           /\ root.langServer = 1
           /\ Len(TopLevelTypes) >= 3
           /\ resources[root.appsNamespace].args.name = "apps"
           /\ objs[1].args.namespace = "apps"
           /\ DeclaredAfter(1, root.appsNamespace)
    /\ Len(objs) = 2 =>
           /\ root.mainServer = 2
           /\ status[1] = "constructed"
           /\ \A k \in 1..Len(resources) :
                  resources[k].by = 1 => DeclaredAfter(2, k)
           /\ objs[2].args.langServerServiceEndpoint =
                  "http://" \o resources[objs[1].service].args.name
                      \o ".apps:3100"
    /\ root.ingressIp # undefined =>
           /\ Len(objs) = 2
           /\ status[2] = "constructed"
           /\ root.ingressIp = IngressControllerIp
    /\ root.domain # 0 =>
           /\ root.ingressIp # undefined
           /\ root.domain = Len(resources)
           /\ resources[root.domain].type = "Domain"
           /\ Truthy(config.customDomain)
           /\ resources[root.domain].args.name = config.customDomain
           /\ resources[root.domain].args.ipAddress = root.ingressIp
    /\ (Len(TopLevelTypes) = 4) <=> (root.domain # 0)
    /\ pc = "done" =>
           /\ root.ingressIp # undefined
           /\ (root.domain # 0) <=> Truthy(config.customDomain)

C14_Witness ==
    /\ pc = "done"
    /\ TopLevelTypes = <<"KubernetesCluster", "Provider", "Namespace", "Domain">>
    /\ resources[root.domain].args.name = "bot.example.com"
    /\ resources[root.domain].args.ipAddress = LbIp

\* C15: an error raised by a statement of a running constructor halts the
\* construction at once: the statement that raised it declares no
\* Deployment, Service or Ingress and sets no field, the constructor is
\* left, and from then on no statement of it runs and no resource is
\* declared by that component.
C15_ErrorHaltsConstruction ==
    [][ /\ (ctor.self # 0 /\ lastCall'.result = "threw") =>
               /\ ctor' = Idle
               /\ status'[ctor.self] = "failed"
               /\ objs' = objs
               /\ \A k \in 1..Len(resources') :
                      k > Len(resources) =>
                          resources'[k].type \notin
                              {"Deployment", "Service", "Ingress"}
        /\ \A i \in 1..Len(objs) :
               status[i] = "failed" =>
                   /\ status'[i] = "failed"
                   /\ ctor'.self # i
                   /\ objs'[i] = objs[i]
                   /\ \A k \in 1..Len(resources') :
                          resources'[k].by = i => k <= Len(resources) ]_vars

C15_Witness ==
    /\ status[1] = "failed"
    /\ ctor = Idle
    /\ lastCall.op = "createDeployment"
    /\ lastCall.result = "threw"
    /\ MissingDbCluster(1)
    /\ objs[1].pvc # 0
    /\ ResOf(1, "Service") = {}
    /\ ResOf(1, "Ingress") = {}

\* The requests that carry the rule create() built for resource r.
RequestsOf(r) ==
    {q \in 1..Len(requests) : requests[q].rules[1].uuid = dynamic[r].id}

\* C16: a created IncomingResource declared with compute-cluster id K and
\* database-cluster id D has a synthetic id no other resource has, and
\* exactly one firewall-rule update was sent for it: to database cluster D,
\* with the single rule of type "k8s" and value K.
C16_CreateGrantsCluster ==
    \A r \in 1..Len(dynamic) :
        dynamic[r].id # undefined =>
            /\ dynamic[r].id \in Uuids
            /\ \A o \in 1..Len(dynamic) : o # r => dynamic[o].id # dynamic[r].id
            /\ Cardinality(RequestsOf(r)) = 1
            /\ \A q \in RequestsOf(r) :
                   /\ requests[q].database_cluster_id = dynamic[r].inputs.dbClusterId
                   /\ Len(requests[q].rules) = 1
                   /\ requests[q].rules[1].type = "k8s"
                   /\ requests[q].rules[1].value = dynamic[r].inputs.k8sClusterId

C18_DbClusterBundle ==
    [][ lastCall'.op = "createDbCluster" =>
            LET i == lastCall'.self
                new == (Len(resources) + 1)..Len(resources')
                Of(type) == {k \in new : resources'[k].type = type}
                c == objs'[i].dbCluster
                p == objs'[i].dbConnectionPool
            IN  /\ lastCall'.result = "returned"
                /\ SubSeq(resources', 1, Len(resources)) = resources
                /\ Cardinality(new) = 4
                /\ \A k \in new : resources'[k].by = i
                /\ Of("DatabaseCluster") = {c}
                /\ Of("DatabaseConnectionPool") = {p}
                /\ Cardinality(Of("DatabaseDb")) = 1
                /\ Cardinality(Of("DatabaseFirewall")) = 1
                /\ \A k \in new \ {c} : resources'[k].args.clusterId = c
                /\ \A k \in Of("DatabaseFirewall") :
                       /\ Len(resources'[k].args.rules) = 1
                       /\ resources'[k].args.rules[1].type = "k8s"
                       /\ resources'[k].args.rules[1].value = objs[i].args.clusterId ]_vars

C18_Witness ==
    /\ lastCall.op = "createDbCluster"
    /\ objs[lastCall.self].dbCluster # 0
    /\ objs[lastCall.self].dbConnectionPool # 0
    /\ resources[Len(resources)].type = "DatabaseFirewall"
    /\ resources[Len(resources)].args.rules[1].value = "doks-1"

\* The app name of each class.
AppName(cls) ==
    IF cls = "LangServer" THEN "botpress-lang-server" ELSE "botpress-server"

\* C19: for the LangServer and for the MainServer, the app value the
\* Service selects on is the explicit name of the component's Deployment
\* and the app label on that Deployment (botpress-lang-server and
\* botpress-server), and the Service's port and target port are the port
\* the Deployment's container exposes.
C19_SelectorMatchesWorkload ==
    \A v \in 1..Len(resources) :
        resources[v].type = "Service" =>
            LET i == resources[v].by IN
            /\ ResOf(i, "Deployment") # {}
            /\ \A d \in ResOf(i, "Deployment") :
                   /\ resources[v].args.selectorApp = resources[d].args.name
                   /\ resources[d].args.name = resources[d].args.labelsApp
                   /\ resources[d].args.name = AppName(objs[i].cls)
                   /\ resources[v].args.port = resources[d].args.port
                   /\ resources[v].args.targetPort = resources[d].args.port

C19_Witness ==
    \E l, m \in 1..Len(objs) :
        /\ objs[l].cls = "LangServer"
        /\ objs[m].cls = "MainServer"
        /\ \E v \in ResOf(l, "Service") :
               /\ resources[v].args.selectorApp = "botpress-lang-server"
               /\ resources[v].args.port = 3100
        /\ \E v \in ResOf(m, "Service") :
               /\ resources[v].args.selectorApp = "botpress-server"
               /\ resources[v].args.port = 3000

\* C20: a MainServer whose constructor returned has exactly three ingress
\* rules, and the constructor never takes the soft no-op branch of
\* createIngressResources: when it reaches that statement the Deployment
\* and the Service are set, and the "not yet ready" message is never logged.
C20_ConstructedHasThreeRules ==
    /\ \A i \in 1..Len(objs) :
           (objs[i].cls = "MainServer" /\ status[i] = "constructed") =>
               Cardinality(ResOf(i, "Ingress")) = 3
    /\ ctor.pc = "createIngressResources" =>
           /\ objs[ctor.self].appDeployment \in ResOf(ctor.self, "Deployment")
           /\ objs[ctor.self].service \in ResOf(ctor.self, "Service")
    /\ \A n \in 1..Len(log) : log[n] # "Some resources are not yet ready."

C20_Witness ==
    /\ lastCall.op = "createIngressResources"
    /\ lastCall.result = "returned"
    /\ ctor = Idle
    /\ status[lastCall.self] = "constructed"
    /\ objs[lastCall.self].args.bpfsStorage = "database"
    /\ Cardinality(ResOf(lastCall.self, "Ingress")) = 3
    /\ log = << >>

====
